---- MODULE Spec2Model ----
(***************************************************************************)
(* State-machine model of mybitnet/bitnet.py: the quantized linear layers *)
(* BitLinear (binary weights) and BitLinear158b (ternary weights).        *)
(*                                                                         *)
(* Tensor elements are exact rationals <<n, d>> (d > 0, lowest terms).    *)
(* A 2-D tensor is a sequence of rows, a row a sequence of rationals.     *)
(***************************************************************************)
EXTENDS Integers, Sequences, FiniteSets

VARIABLES
    status,             \* "none" | "constructed" | "error": outcome of __init__
    cls,                \* "BitLinear" | "BitLinear158b"
    in_features,        \* nn.Linear.in_features
    out_features,       \* nn.Linear.out_features
    weight,             \* self.weight, [out_features][in_features]
    bias,               \* self.bias: a row of out_features values, or None
    bits,               \* self.bits
    Qb,                 \* self.Qb
    epsilon,            \* self.epsilon
    flg_before_linear,  \* self.flg_before_linear (Deleted in BitLinear158b)
    call,               \* frame of the most recent method call: arguments, locals, result
    ref                 \* history: one earlier forward call, kept for comparison

vars == <<status, cls, in_features, out_features, weight, bias, bits, Qb,
          epsilon, flg_before_linear, call, ref>>

selfvars == <<status, cls, in_features, out_features, weight, bias, bits, Qb,
              epsilon, flg_before_linear>>

\* Python's None (an absent bias; a field of a layer not yet constructed)
None == <<>>
\* an attribute removed with del
Deleted == "deleted"
\* no forward call recorded yet
NoRef == [op |-> "none"]

(***************************************************************************)
(* Bounds of the model.                                                    *)
(***************************************************************************)
MaxBits == 3
MaxNum == 2

(***************************************************************************)
(* Exact rational arithmetic.                                              *)
(***************************************************************************)
RECURSIVE GCD(_, _)
GCD(a, b) == IF b = 0 THEN a ELSE GCD(b, a % b)

IAbs(n) == IF n < 0 THEN -n ELSE n

Rat(n, d) ==
    LET g == GCD(IAbs(n), IAbs(d))
        s == IF d < 0 THEN -1 ELSE 1
    IN  <<s * (n \div g), s * (d \div g)>>

RInt(n) == <<n, 1>>
Zero == <<0, 1>>
One == <<1, 1>>

\* the value of a division by zero (inf/nan of the float type); it propagates
NaN == <<0, 0>>
IsNaN(a) == a[2] = 0

IsInteger(a) == a[2] = 1

RNeg(a) == <<-a[1], a[2]>>

RAbs(a) == <<IAbs(a[1]), a[2]>>

RAdd(a, b) ==
    IF IsNaN(a) \/ IsNaN(b) THEN NaN
    ELSE LET g == GCD(a[2], b[2])
             l == (a[2] \div g) * b[2]
         IN  Rat(a[1] * (l \div a[2]) + b[1] * (l \div b[2]), l)

RSub(a, b) == RAdd(a, RNeg(b))

RMul(a, b) ==
    IF IsNaN(a) \/ IsNaN(b) THEN NaN
    ELSE LET g1 == GCD(IAbs(a[1]), b[2])
             g2 == GCD(IAbs(b[1]), a[2])
         IN  <<(a[1] \div g1) * (b[1] \div g2), (a[2] \div g2) * (b[2] \div g1)>>

RDiv(a, b) ==
    IF IsNaN(a) \/ IsNaN(b) \/ b[1] = 0 THEN NaN
    ELSE RMul(a, IF b[1] > 0 THEN <<b[2], b[1]>> ELSE <<-b[2], -b[1]>>)

\* comparisons are false on NaN; max and min propagate it
RLt(a, b) == ~IsNaN(a) /\ ~IsNaN(b) /\ RSub(a, b)[1] < 0
RLe(a, b) == ~IsNaN(a) /\ ~IsNaN(b) /\ RSub(a, b)[1] <= 0
RMax(a, b) == IF IsNaN(a) \/ IsNaN(b) THEN NaN ELSE IF RLt(a, b) THEN b ELSE a
RMin(a, b) == IF IsNaN(a) \/ IsNaN(b) THEN NaN ELSE IF RLt(b, a) THEN b ELSE a

\* 2 ** e for an integer e of either sign (Python int for e >= 0, float 2^e below)
RECURSIVE Pow2(_)
Pow2(e) ==
    IF e = 0 THEN One
    ELSE IF e > 0 THEN RMul(RInt(2), Pow2(e - 1))
    ELSE RMul(<<1, 2>>, Pow2(e + 1))

\* torch.round: to the nearest integer, halves to the even neighbour
Round(a) ==
    IF IsNaN(a) THEN NaN
    ELSE LET f == a[1] \div a[2]
             r == a[1] - f * a[2]
         IN  IF 2 * r < a[2] THEN RInt(f)
             ELSE IF 2 * r > a[2] THEN RInt(f + 1)
             ELSE IF f % 2 = 0 THEN RInt(f) ELSE RInt(f + 1)

\* a slip: the clamp left out
Clamp_none(a, lo, hi) == a

\* Tensor.clamp(min=lo, max=hi) on one element: min(max(a, lo), hi)
Clamp(a, lo, hi) == RMin(RMax(a, lo), hi)

\* a slip: the floor left out
ClampMin_none(a, lo) == a

\* Tensor.clamp(min=lo) on one element
ClampMin(a, lo) == RMax(a, lo)

(***************************************************************************)
(* Tensors.                                                                *)
(***************************************************************************)
RECURSIVE Flatten(_)
Flatten(x) == IF x = <<>> THEN <<>> ELSE Head(x) \o Flatten(Tail(x))

RECURSIVE SeqMax(_)
SeqMax(s) == IF Len(s) = 1 THEN s[1] ELSE RMax(s[1], SeqMax(Tail(s)))

RECURSIVE SeqMin(_)
SeqMin(s) == IF Len(s) = 1 THEN s[1] ELSE RMin(s[1], SeqMin(Tail(s)))

RECURSIVE SeqSum(_)
SeqSum(s) == IF s = <<>> THEN Zero ELSE RAdd(s[1], SeqSum(Tail(s)))

SeqMean(s) == RDiv(SeqSum(s), RInt(Len(s)))

\* elementwise application over a 2-D tensor
Map2(Op(_), x) == [r \in DOMAIN x |-> [c \in DOMAIN x[r] |-> Op(x[r][c])]]

\* elementwise application with the row index (broadcast of a [rows, 1] tensor)
MapRows(Op(_, _), x) == [r \in DOMAIN x |-> [c \in DOMAIN x[r] |-> Op(r, x[r][c])]]

AbsT(x) == Map2(RAbs, x)

\* Tensor.max(), Tensor.min(), Tensor.mean() over all elements
TMax(x) == SeqMax(Flatten(x))
TMin(x) == SeqMin(Flatten(x))
TMean(x) == SeqMean(Flatten(x))

\* a slip: the maximum taken over the whole tensor (dim=-1 left out)
AMaxLastDim_global(x) == [r \in DOMAIN x |-> SeqMax(Flatten(x))]

\* Tensor.amax(dim=-1, keepdim=True): one value per row
AMaxLastDim(x) == [r \in DOMAIN x |-> SeqMax(x[r])]

\* a slip: the operands of the detached difference swapped
STE_swapped(q, s) == RAdd(RSub(s, q), s)

\* (q - s).detach() + s, the straight-through estimator; forward value only
STE(q, s) == RAdd(RSub(q, s), s)

\* STE applied elementwise to a quantized tensor and its surrogate
STE2(q, s) == [r \in DOMAIN q |-> [c \in DOMAIN q[r] |-> STE(q[r][c], s[r][c])]]

\* a slip: the factor Qb left out
Scaled_noQb(v, Qb_, gamma) == RDiv(v, gamma)

\* v * Qb / gamma
Scaled(v, Qb_, gamma) == RDiv(RMul(v, Qb_), gamma)

(***************************************************************************)
(* BitLinear.absmax_quantize                                               *)
(***************************************************************************)
BitLinear_absmax_quantize(flg, x, Qb_, epsilon_) ==
    IF flg
    THEN LET gamma == ClampMin(TMax(AbsT(x)), epsilon_)
             Scale(v) == Scaled(v, Qb_, gamma)
             x_scaled == Map2(Scale, x)
             Quant(v) == Clamp(Round(v), RNeg(Qb_), RSub(Qb_, One))
             q == Map2(Quant, x_scaled)
         IN  [gamma |-> gamma, x_scaled |-> x_scaled, q |-> q,
              x_q |-> STE2(q, x_scaled)]
    ELSE LET eta == TMin(x)
             Shift(v) == RSub(v, eta)
             gamma == ClampMin(TMax(AbsT(Map2(Shift, x))), epsilon_)
             Scale(v) == Scaled(RSub(v, eta), Qb_, gamma)
             x_scaled == Map2(Scale, x)
             Quant(v) == Clamp(Round(v), Zero, RSub(Qb_, One))
             q == Map2(Quant, x_scaled)
         IN  [gamma |-> gamma, x_scaled |-> x_scaled, q |-> q,
              x_q |-> STE2(q, x_scaled)]

\* torch.sign, which sends 0 to 0
custom_sign_torch(v) == IF RLt(Zero, v) THEN One ELSE IF RLt(v, Zero) THEN RNeg(One) ELSE Zero

(***************************************************************************)
(* BitLinear.custom_sign: W > 0 to +1, W <= 0 to -1                        *)
(***************************************************************************)
custom_sign(v) == RSub(RMul(IF RLt(Zero, v) THEN One ELSE Zero, RInt(2)), One)

(***************************************************************************)
(* BitLinear.quantize_weights (binarizer)                                  *)
(***************************************************************************)
BitLinear_quantize_weights(weight_, epsilon_) ==
    LET alpha == TMean(weight_)
        Center(v) == RSub(v, alpha)
        weight_centered == Map2(Center, weight_)
        q == Map2(custom_sign, weight_centered)
        beta == TMean(AbsT(weight_))
        denom == ClampMin(TMax(AbsT(weight_centered)), epsilon_)
        Scale(v) == RDiv(v, denom)
        weight_scaled == Map2(Scale, weight_centered)
    IN  [beta |-> beta, surrogate |-> weight_scaled, q |-> q,
         w_q |-> STE2(q, weight_scaled)]

(***************************************************************************)
(* BitLinear158b.quantize_weights (trinarizer)                             *)
(***************************************************************************)
BitLinear158b_quantize_weights(weight_, epsilon_) ==
    LET beta == ClampMin(TMean(AbsT(weight_)), epsilon_)
        Quant(v) == Clamp(Round(RDiv(v, beta)), RNeg(One), One)
        q == Map2(Quant, weight_)
    IN  [beta |-> beta, surrogate |-> weight_, q |-> q,
         w_q |-> STE2(q, weight_)]

(***************************************************************************)
(* BitLinear158b.absmax_quantize (per row); gamma has shape [rows, 1]      *)
(***************************************************************************)
BitLinear158b_absmax_quantize(x, Qb_, epsilon_) ==
    LET amax == AMaxLastDim(AbsT(x))
        gamma == [r \in DOMAIN x |-> ClampMin(amax[r], epsilon_)]
        Scale(r, v) == Scaled(v, Qb_, gamma[r])
        x_scaled == MapRows(Scale, x)
        Quant(v) == Clamp(Round(v), RNeg(Qb_), RSub(Qb_, One))
        q == Map2(Quant, x_scaled)
    IN  [gamma |-> gamma, x_scaled |-> x_scaled, q |-> q,
         x_q |-> STE2(q, x_scaled)]

\* method resolution: BitLinear158b overrides both quantizers
absmax_quantize(cls_, flg, x, Qb_, epsilon_) ==
    IF cls_ = "BitLinear158b"
    THEN BitLinear158b_absmax_quantize(x, Qb_, epsilon_)
    ELSE BitLinear_absmax_quantize(flg, x, Qb_, epsilon_)

quantize_weights(cls_, weight_, epsilon_) ==
    IF cls_ = "BitLinear158b"
    THEN BitLinear158b_quantize_weights(weight_, epsilon_)
    ELSE BitLinear_quantize_weights(weight_, epsilon_)

(***************************************************************************)
(* nn.LayerNorm(in_features, elementwise_affine=False), applied per row:   *)
(* (v - mean) / sqrt(var + eps) with the biased variance.  A constant row  *)
(* gives exactly 0; elsewhere the library's eps (1e-5 under the root) is   *)
(* left out, so that the root of the variance is taken exactly (rows of    *)
(* two features always have a rational one).                               *)
(***************************************************************************)
ISqrt(n) == CHOOSE k \in 0..n : k * k = n

RSqrt(a) == <<ISqrt(a[1]), ISqrt(a[2])>>

NormRow(row) ==
    LET m == SeqMean(row)
        c == [i \in DOMAIN row |-> RSub(row[i], m)]
        var == SeqMean([i \in DOMAIN row |-> RMul(c[i], c[i])])
    IN  IF var = Zero THEN [i \in DOMAIN row |-> Zero]
        ELSE [i \in DOMAIN row |-> RDiv(c[i], RSqrt(var))]

layernorm(x) == [r \in DOMAIN x |-> NormRow(x[r])]

\* torch.nn.functional.linear(x_q, w_q, bias): x_q @ w_q^T (+ bias)
RECURSIVE Dot(_, _)
Dot(a, b) == IF a = <<>> THEN Zero
             ELSE RAdd(RMul(Head(a), Head(b)), Dot(Tail(a), Tail(b)))

\* a slip: the bias not passed on
linear_nobias(x_q, w_q, bias_) ==
    [r \in DOMAIN x_q |-> [o \in DOMAIN w_q |-> Dot(x_q[r], w_q[o])]]

linear(x_q, w_q, bias_) ==
    [r \in DOMAIN x_q |-> [o \in DOMAIN w_q |->
        IF bias_ = None THEN Dot(x_q[r], w_q[o])
        ELSE RAdd(Dot(x_q[r], w_q[o]), bias_[o])]]

\* x_matmul * (beta * gamma / Qb); a per-row gamma ([rows, 1]) broadcasts over rows
Dequantize(x_matmul, beta, gamma, Qb_, perRow) ==
    [r \in DOMAIN x_matmul |-> [o \in DOMAIN x_matmul[r] |->
        RMul(x_matmul[r][o],
             RDiv(RMul(beta, IF perRow THEN gamma[r] ELSE gamma), Qb_))]]

(***************************************************************************)
(* BitLinear.forward (inherited unchanged by BitLinear158b)                *)
(***************************************************************************)
forward(cls_, flg, weight_, bias_, Qb_, epsilon_, x) ==
    LET x_norm == layernorm(x)
        a == absmax_quantize(cls_, flg, x_norm, Qb_, epsilon_)
        w == quantize_weights(cls_, weight_, epsilon_)
        x_matmul == linear(a.x_q, w.w_q, bias_)
        output == Dequantize(x_matmul, w.beta, a.gamma, Qb_, cls_ = "BitLinear158b")
    IN  [x_norm |-> x_norm, x_q |-> a.x_q, gamma |-> a.gamma,
         w_q |-> w.w_q, beta |-> w.beta, x_matmul |-> x_matmul, output |-> output]

(***************************************************************************)
(* Inputs.                                                                 *)
(***************************************************************************)
\* self.epsilon = 1e-6
EPSILON == <<1, 1000000>>

\* element values: the integers up to MaxNum in size, and one value below epsilon
Vals == {RInt(n) : n \in -MaxNum..MaxNum} \cup {<<1, 2000000>>}

Rows2(V) == {<<a, b>> : a \in V, b \in V}

\* all 2 x 2 tensors over Vals: arguments of the quantizers
Tensors == {<<r1, r2>> : r1 \in Rows2(Vals), r2 \in Rows2(Vals)}

Classes == {"BitLinear", "BitLinear158b"}

\* constructor arguments
BitsArgs == 0..MaxBits
FeatureArgs == {-1, 2}

\* values nn.Linear's random initialisation and the optimizer give the parameters
LayerWeights ==
    { <<<<RInt(2), RInt(-1)>>, <<<<1, 2>>, RInt(-3)>>>>,
      <<<<One, One>>, <<One, One>>>>,
      <<<<One, Zero>>, <<<<-1, 2>>, Zero>>>> }
LayerBiases == { <<One, <<-1, 2>>>>, <<Zero, RInt(2)>> }

\* inputs of forward: [2, in_features]
ForwardInputs == {<<r1, r2>> : r1 \in {<<One, Zero>>, <<Zero, Zero>>},
                               r2 \in {<<Zero, One>>, <<Zero, Zero>>}}

\* Qb arguments of absmax_quantize: 2 ** (bits - 1) for bits in 1..MaxBits
QbArgs == {Pow2(b - 1) : b \in 1..MaxBits}

Idle == [op |-> "idle"]

(***************************************************************************)
(* Actions.                                                                *)
(***************************************************************************)
\* __init__ of either class; nn.Linear.__init__ draws the initial parameters
Construct(c, in_f, out_f, bias_flag, bits_, flg) ==
    /\ status = "none"
    /\ in_f >= 0 /\ out_f >= 0
    /\ status' = "constructed"
    /\ cls' = c
    /\ in_features' = in_f
    /\ out_features' = out_f
    /\ weight' \in LayerWeights
    /\ bias' \in (IF bias_flag THEN LayerBiases ELSE {None})
    /\ bits' = bits_
    /\ Qb' = Pow2(bits_ - 1)
    /\ epsilon' = EPSILON
    /\ flg_before_linear' = (IF c = "BitLinear158b" THEN Deleted ELSE flg)
    /\ UNCHANGED <<call, ref>>

\* nn.Linear.__init__ cannot allocate a parameter of negative size: it raises
ConstructRaises(c, in_f, out_f) ==
    /\ status = "none"
    /\ in_f < 0 \/ out_f < 0
    /\ status' = "error"
    /\ UNCHANGED <<cls, in_features, out_features, weight, bias, bits, Qb,
                   epsilon, flg_before_linear, call, ref>>

\* a slip: forward keeps the quantized weight in place of the stored one
Forward_writeback(x) ==
    /\ status = "constructed"
    /\ call = Idle
    /\ LET f == forward(cls, flg_before_linear, weight, bias, Qb, epsilon, x)
       IN  /\ call' = [op |-> "forward", arg |-> x, res |-> f]
           /\ ref' = IF ref = NoRef
                     THEN [op |-> "forward", weight |-> weight, bias |-> bias,
                           x |-> x, output |-> f.output, stepped |-> FALSE]
                     ELSE ref
           /\ weight' = f.w_q
    /\ UNCHANGED <<status, cls, in_features, out_features, bias, bits, Qb,
                   epsilon, flg_before_linear>>

\* layer.forward(x)
Forward(x) ==
    /\ status = "constructed"
    /\ call = Idle
    /\ LET f == forward(cls, flg_before_linear, weight, bias, Qb, epsilon, x)
       IN  /\ call' = [op |-> "forward", arg |-> x, res |-> f]
           /\ ref' = IF ref = NoRef
                     THEN [op |-> "forward", weight |-> weight, bias |-> bias,
                           x |-> x, output |-> f.output, stepped |-> FALSE]
                     ELSE ref
    /\ UNCHANGED selfvars

\* the external optimizer writes the parameters between invocations
OptimizerStep(w, b) ==
    /\ status = "constructed"
    /\ call = Idle
    /\ weight' = w
    /\ bias' = (IF bias = None THEN None ELSE b)
    /\ <<weight', bias'>> # <<weight, bias>>
    /\ ref' = IF ref = NoRef THEN NoRef ELSE [ref EXCEPT !.stepped = TRUE]
    /\ UNCHANGED <<status, cls, in_features, out_features, bits, Qb, epsilon,
                   flg_before_linear, call>>

\* layer.absmax_quantize(x, Qb, layer.epsilon)
AbsmaxQuantize(x, Qb_) ==
    /\ status = "constructed"
    /\ call = Idle
    /\ call' = [op |-> "absmax_quantize", arg |-> [x |-> x, Qb |-> Qb_],
                res |-> absmax_quantize(cls, flg_before_linear, x, Qb_, epsilon)]
    /\ UNCHANGED <<selfvars, ref>>

\* layer.quantize_weights(w, layer.epsilon)
QuantizeWeights(w) ==
    /\ status = "constructed"
    /\ call = Idle
    /\ call' = [op |-> "quantize_weights", arg |-> w,
                res |-> quantize_weights(cls, w, epsilon)]
    /\ UNCHANGED <<selfvars, ref>>

\* the call returns; its frame is dropped
Return ==
    /\ call # Idle
    /\ call' = Idle
    /\ UNCHANGED <<selfvars, ref>>

(***************************************************************************)
(* Spec: the life of a layer: construction, forward calls, optimizer.      *)
(***************************************************************************)
Init ==
    /\ status = "none"
    /\ cls = "None" /\ in_features = None /\ out_features = None
    /\ weight = None /\ bias = None /\ bits = None /\ Qb = None
    /\ epsilon = None /\ flg_before_linear = "None"
    /\ call = Idle
    /\ ref = NoRef

\* a method is called on a constructed layer, one call at a time
CanCall == status = "constructed" /\ call = Idle

Next ==
    \/ status = "none" /\
          \E c \in Classes, in_f \in FeatureArgs, out_f \in FeatureArgs,
             bias_flag \in BOOLEAN, bits_ \in BitsArgs, flg \in BOOLEAN :
               Construct(c, in_f, out_f, bias_flag, bits_, flg)
    \/ status = "none" /\
          \E c \in Classes, in_f \in FeatureArgs, out_f \in FeatureArgs :
               ConstructRaises(c, in_f, out_f)
    \/ CanCall /\ \E x \in ForwardInputs : Forward(x)
    \/ CanCall /\ \E w \in LayerWeights, b \in LayerBiases : OptimizerStep(w, b)
    \/ Return

Spec == Init /\ [][Next]_vars

(***************************************************************************)
(* SpecQ: the two quantizers of a constructed layer, called on arbitrary   *)
(* tensors.                                                                *)
(***************************************************************************)
InitQ ==
    /\ status = "constructed"
    /\ cls \in Classes
    /\ in_features = 2 /\ out_features = 2
    /\ weight = <<<<One, One>>, <<One, One>>>>
    /\ bias = None
    /\ bits = 8
    /\ Qb = Pow2(bits - 1)
    /\ epsilon = EPSILON
    /\ flg_before_linear \in (IF cls = "BitLinear158b" THEN {Deleted} ELSE BOOLEAN)
    /\ call = Idle
    /\ ref = NoRef

NextQ ==
    \/ CanCall /\ \E x \in Tensors, Qb_ \in QbArgs : AbsmaxQuantize(x, Qb_)
    \/ CanCall /\ \E w \in Tensors : QuantizeWeights(w)
    \/ Return

SpecQ == InitQ /\ [][NextQ]_vars

(***************************************************************************)
(* Properties.                                                             *)
(***************************************************************************)
IsAbsmaxCall == call.op = "absmax_quantize"
IsWeightCall == call.op = "quantize_weights"
IsForwardCall == call.op = "forward"

\* the activation policy a layer applies
Policy == IF cls = "BitLinear158b" THEN "per-row"
          ELSE IF flg_before_linear THEN "symmetric" ELSE "shifted"

All2(P(_), x) == \A r \in DOMAIN x : \A c \in DOMAIN x[r] : P(x[r][c])
Any2(P(_), x) == \E r \in DOMAIN x : \E c \in DOMAIN x[r] : P(x[r][c])
IsZero(v) == v = Zero

\* C1: every element of the quantized activation is an integer in
\* [-Qb, Qb-1] (symmetric and per-row policies) or [0, Qb-1] (shifted policy).
C1_QuantizedInRange ==
    IsAbsmaxCall =>
        LET lo == IF Policy = "shifted" THEN Zero ELSE RNeg(call.arg.Qb)
            hi == RSub(call.arg.Qb, One)
            InRange(v) == IsInteger(v) /\ RLe(lo, v) /\ RLe(v, hi)
        IN  All2(InRange, call.res.x_q)

\* a shifted-policy call in which the clamp cut the top value Qb down to Qb - 1,
\* and a value at the bottom of the range
C1_Witness ==
    /\ IsAbsmaxCall
    /\ Policy = "shifted"
    /\ \E r \in 1..2, c \in 1..2 :
          /\ call.res.x_scaled[r][c] = call.arg.Qb
          /\ call.res.x_q[r][c] = RSub(call.arg.Qb, One)
    /\ Any2(IsZero, call.res.x_q)
    /\ call.arg.Qb = RInt(2)

\* C2: the binarizer returns -1 where the centered weight is <= 0 and +1 where
\* it is > 0 (so never 0); the trinarizer returns values in {-1, 0, +1}.
C2_WeightValues ==
    IsWeightCall =>
        LET alpha == TMean(call.arg)
            Binary(r, c) ==
                call.res.w_q[r][c] =
                    (IF RLt(Zero, RSub(call.arg[r][c], alpha)) THEN One ELSE RNeg(One))
            Ternary(v) == v \in {RNeg(One), Zero, One}
        IN  IF cls = "BitLinear"
            THEN \A r \in DOMAIN call.arg : \A c \in DOMAIN call.arg[r] : Binary(r, c)
            ELSE All2(Ternary, call.res.w_q)

\* a binarizer call with a weight equal to the mean (centered value exactly 0)
\* beside one above it
C2_Witness ==
    /\ IsWeightCall
    /\ cls = "BitLinear"
    /\ \E r \in 1..2, c \in 1..2 : call.arg[r][c] = TMean(call.arg)
    /\ \E r \in 1..2, c \in 1..2 : RLt(TMean(call.arg), call.arg[r][c])

\* C3: beta returned by quantize_weights is >= epsilon in both variants, and
\* equals epsilon for an all-zero weight tensor.
C3_BetaFloored ==
    IsWeightCall =>
        /\ RLe(epsilon, call.res.beta)
        /\ All2(IsZero, call.arg) => call.res.beta = epsilon

\* C4: gamma >= epsilon in all three policies (every entry of a per-row gamma),
\* so no element of x_scaled comes from a division by zero; for an all-zero
\* input (shifted policy: any constant input) gamma equals epsilon and
\* x_scaled and x_q are 0 everywhere.
C4_GammaFloored ==
    IsAbsmaxCall =>
        LET x == call.arg.x
            Gammas == IF Policy = "per-row"
                      THEN {call.res.gamma[r] : r \in DOMAIN x}
                      ELSE {call.res.gamma}
            Constant == \A r \in DOMAIN x : \A c \in DOMAIN x[r] : x[r][c] = x[1][1]
            Degenerate == All2(IsZero, x) \/ (Policy = "shifted" /\ Constant)
        IN  /\ \A g \in Gammas : RLe(epsilon, g)
            /\ ~Any2(IsNaN, call.res.x_scaled)
            /\ Degenerate =>
                  /\ Gammas = {epsilon}
                  /\ All2(IsZero, call.res.x_scaled)
                  /\ All2(IsZero, call.res.x_q)

\* a shifted-policy call on a constant input that is not zero
C4_Witness ==
    /\ IsAbsmaxCall
    /\ Policy = "shifted"
    /\ call.arg.x = <<<<RInt(2), RInt(2)>>, <<RInt(2), RInt(2)>>>>
    /\ call.res.gamma = epsilon

DequantError(x, res, Qb_) ==
    LET eta == IF Policy = "shifted" THEN TMin(x) ELSE Zero
        G(r) == IF Policy = "per-row" THEN res.gamma[r] ELSE res.gamma
        E(r, c) == RAbs(RSub(RAdd(RDiv(RMul(res.x_q[r][c], G(r)), Qb_), eta), x[r][c]))
    IN  SeqMean(Flatten([r \in DOMAIN x |-> [c \in DOMAIN x[r] |-> E(r, c)]]))

\* the error of absmax_quantize on x at a given Qb
ErrorAt(x, Qb_) ==
    LET Err(res) == DequantError(x, res, Qb_)
    IN  CHOOSE e \in {Err(res) : res \in {absmax_quantize(cls, flg_before_linear,
                                                          x, Qb_, epsilon)}} : TRUE

\* C8: for a fixed input and policy the mean absolute dequantization error does
\* not grow when bits grows by one (Qb doubles).
C8_ErrorMonotone ==
    IsAbsmaxCall =>
        \A next \in {ErrorAt(call.arg.x, RMul(RInt(2), call.arg.Qb))},
           this \in {DequantError(call.arg.x, call.res, call.arg.Qb)} :
            RLe(next, this)

\* a call in which the clamp cut a value and one more bit strictly lowers the error
C8_Witness ==
    /\ IsAbsmaxCall
    /\ Any2(LAMBDA v : v = call.arg.Qb, call.res.x_scaled)
    /\ \A next \in {ErrorAt(call.arg.x, RMul(RInt(2), call.arg.Qb))},
          this \in {DequantError(call.arg.x, call.res, call.arg.Qb)} :
            RLt(next, this)

\* C5: a layer with bits <= 0, in_features <= 0, out_features <= 0 or
\* epsilon <= 0 is never constructed, and forward never runs on one.
C5_InvalidConfigRejected ==
    (status = "constructed" \/ IsForwardCall) =>
        /\ bits > 0
        /\ in_features > 0
        /\ out_features > 0
        /\ RLt(Zero, epsilon)

\* a step that is a forward call
ForwardStep == call = Idle /\ call'.op = "forward"

\* C6: a forward call leaves weight, bias, bits, Qb and epsilon (every field of
\* the layer) unchanged, and returns the output an earlier forward call returned
\* for the same weight, bias and input, whatever happened in between.
C6_ForwardStateless ==
    [][ForwardStep =>
          /\ UNCHANGED selfvars
          /\ (ref.op = "forward" /\ ref.weight = weight /\ ref.bias = bias
                 /\ ref.x = call'.arg)
                => call'.res.output = ref.output]_vars

\* a forward call repeating an earlier one, after the optimizer wrote the
\* parameters in between and wrote them back
C6_Witness ==
    /\ IsForwardCall
    /\ ref.op = "forward"
    /\ ref.stepped
    /\ ref.weight = weight /\ ref.bias = bias /\ ref.x = call.arg
    /\ call.res.output = ref.output

\* the layer's own quantizers, by class
OwnAbsmax(x) ==
    IF cls = "BitLinear158b"
    THEN BitLinear158b_absmax_quantize(x, Qb, epsilon)
    ELSE BitLinear_absmax_quantize(flg_before_linear, x, Qb, epsilon)

OwnWeights(w) ==
    IF cls = "BitLinear158b"
    THEN BitLinear158b_quantize_weights(w, epsilon)
    ELSE BitLinear_quantize_weights(w, epsilon)

\* C9: forward returns (x_q @ w_q^T + bias) * (beta * gamma / Qb), with x_q, gamma
\* and w_q, beta from the layer's own quantizers; the bias is inside the
\* rescaled sum and nothing is applied after the rescaling.
C9_ForwardFormula ==
    IsForwardCall =>
        \A a \in {OwnAbsmax(layernorm(call.arg))}, w \in {OwnWeights(weight)} :
            LET G(r) == IF cls = "BitLinear158b" THEN a.gamma[r] ELSE a.gamma
                B(o) == IF bias = None THEN Zero ELSE bias[o]
                Raw(r, o) == RAdd(RAdd(RMul(a.x_q[r][1], w.w_q[o][1]),
                                       RMul(a.x_q[r][2], w.w_q[o][2])), B(o))
            IN  \A r \in 1..2, o \in 1..2 :
                    call.res.output[r][o] =
                        RMul(Raw(r, o), RDiv(RMul(w.beta, G(r)), Qb))

\* a forward call with a bias whose rescaled share shows in an output that is
\* neither an integer nor inside [-Qb, Qb - 1]
C9_Witness ==
    /\ IsForwardCall
    /\ bias # None
    /\ bits = 2
    /\ \E r \in 1..2, o \in 1..2 :
          /\ ~IsInteger(call.res.output[r][o])
          /\ RLt(Qb, call.res.output[r][o])
          /\ call.res.output[r][o] #
                RMul(Dot(call.res.x_q[r], call.res.w_q[o]),
                     RDiv(RMul(call.res.beta,
                               IF cls = "BitLinear158b" THEN call.res.gamma[r]
                               ELSE call.res.gamma), Qb))

\* max(|row|) floored at epsilon
RowGamma(row) == RMax(SeqMax([i \in DOMAIN row |-> RAbs(row[i])]), epsilon)

\* C10: in BitLinear158b the activation quantizer is per-row symmetric (no
\* shift): gamma of a row is max(|x|) over that row floored at epsilon, and the
\* gamma, the quantized values and the output of a row are the same for every
\* input that agrees on that row; in BitLinear gamma is one value for the
\* whole tensor.
C10_PerRowIndependence ==
    IsForwardCall =>
        LET x_norm == call.res.x_norm
        IN  IF cls = "BitLinear158b"
            THEN /\ flg_before_linear = Deleted
                 /\ \A r \in 1..2 :
                      /\ call.res.gamma[r] = RowGamma(x_norm[r])
                      /\ \A c \in 1..2 :
                            call.res.x_q[r][c] =
                                Clamp(Round(RDiv(RMul(x_norm[r][c], Qb), call.res.gamma[r])),
                                      RNeg(Qb), RSub(Qb, One))
                      /\ \A y \in {z \in ForwardInputs : z[r] = call.arg[r]} :
                            \A f \in {forward(cls, flg_before_linear, weight,
                                              bias, Qb, epsilon, y)} :
                                /\ f.gamma[r] = call.res.gamma[r]
                                /\ f.x_q[r] = call.res.x_q[r]
                                /\ f.output[r] = call.res.output[r]
            ELSE /\ flg_before_linear \in BOOLEAN
                 /\ call.res.gamma =
                        (IF flg_before_linear
                         THEN RMax(RowGamma(x_norm[1]), RowGamma(x_norm[2]))
                         ELSE RMax(RSub(TMax(x_norm), TMin(x_norm)), epsilon))

\* a BitLinear158b forward call on an input with a constant row (gamma at the
\* floor) under a row that is not constant (gamma above it)
C10_Witness ==
    /\ IsForwardCall
    /\ cls = "BitLinear158b"
    /\ call.res.gamma[1] = epsilon
    /\ RLt(epsilon, call.res.gamma[2])
    /\ \E y \in ForwardInputs : y[1] = call.arg[1] /\ y[2] # call.arg[2]

====
